---- MODULE Spec2Model ----
(***************************************************************************)
(* Protected-mode bring-up of the testos kernel: the boot sequence kmain   *)
(* (src/kernel.c), the legacy interrupt-controller remap (src/cpu/pic.c),  *)
(* the dispatch table (src/cpu/interrupt.c) and the segment-table setters  *)
(* (src/cpu/gdt.c), together with the hardware they drive: two cascaded    *)
(* 8259A controllers behind ports 0x20/0x21 and 0xA0/0xA1, and the CPU's   *)
(* interrupt delivery through the table named by IDTR.                     *)
(***************************************************************************)
EXTENDS Integers, Sequences, FiniteSets, TLC

VARIABLES
    kpc,            \* kmain: index into KmainOrder of the statement to run next
    i,              \* kmain: loop counter of the for loops (kernel.c 66, 72)
    iflag,           \* EFLAGS.IF, TRUE = maskable interrupts enabled
    gdt,            \* cpu/gdt.c `gdt`: slots written so far (others are zero)
    gpc,            \* position inside gdt_set_code_segment / gdt_set_data_segment
    gArgs,          \* arguments of the segment setter in progress
    savedFlags,     \* the EFLAGS.IF value pushed by pushf (gdt.c 36, 57)
    gdtr,           \* the CPU's GDTR: [base, limit]
    idtr,           \* the CPU's IDTR: [base, limit]
    loadArg,        \* arguments of a gdt_load / idt_load in progress
    idt_entries,    \* kernel.c 14: struct idt_entry idt_entries[256]
    handlers,       \* cpu/interrupt.c 3: __interrupt_handlers[256]
    pic,            \* the two 8259A chips: [master, slave]
    picpc,          \* pic_remap: 0 = not running, k = next port operation
    picArgs,        \* pic_remap: [irq0_offset, irq8_offset]
    mask1,          \* pic_remap local (pic.c 12)
    mask2,          \* pic_remap local (pic.c 12)
    portlog,        \* history: port operations of the current pic_remap call
    entryImr,       \* history: <<master mask, slave mask>> when pic_remap was called
    calls,          \* history: number of pic_remap calls that have returned
    retImr,         \* history: <<master mask, slave mask>> at each return of pic_remap
    cpu,            \* "running", "handler" (inside a handler) or "halted"
    iretIF,         \* IF value pushed on interrupt entry, restored by iret
    lastDelivery,   \* history: the last interrupt delivered
    ranTest,        \* history: number of times test_handler has run
    lastSet,        \* history: the last interrupt_set_handler call
    fnIn,           \* harness: the arguments (and state at entry) of the call under test
    fnOut,          \* harness: what the call under test returned or did
    hcalls,         \* harness: number of calls made so far
    console_row,    \* console.c 7
    console_column, \* console.c 7
    console_buffer, \* console.c 9: the cells at 0xB8000 that are not the blank cell
    tb,             \* core/terminal.h 9: struct terminal_buffer [bottom_line, buf]
    bottom,         \* io/terminal.c 6
    buffer          \* io/terminal.c 5: the lines written so far (others are zero)

vars == <<kpc, i, iflag, gdt, gpc, gArgs, savedFlags, gdtr, idtr, loadArg, idt_entries,
          handlers, pic, picpc, picArgs, mask1, mask2, portlog, entryImr, calls,
          retImr, cpu, iretIF, lastDelivery, ranTest, lastSet, fnIn, fnOut, hcalls,
          console_row, console_column, console_buffer, tb, bottom, buffer>>

bootVars == <<kpc, i, gdt, gpc, gArgs, savedFlags, gdtr, idtr, loadArg, idt_entries,
              handlers>>
consoleVars == <<console_row, console_column, console_buffer>>
terminalVars == <<tb, bottom, buffer>>
screenVars == <<consoleVars, terminalVars>>
harnessVars == <<fnIn, fnOut, hcalls, screenVars>>
picVars  == <<pic, picpc, picArgs, mask1, mask2, portlog, entryImr, calls, retImr,
              harnessVars>>
cpuVars  == <<cpu, iretIF, lastDelivery, ranTest, lastSet>>

----------------------------------------------------------------------------
(* Bounds of the model *)

\* mask registers start as any value 0..MaxMaskLow or its complement
MaxMaskLow == 2
\* pic_remap is called at most this many times by the remap harness
MaxRemapCalls == 2
\* the count of test_handler runs saturates here
MaxRanTest == 2
\* the segment setters are called at most this many times by their harness
MaxGdtCalls == 2
\* interrupt_get_trampoline_addr is called at most this many times in a run
MaxTrampolineCalls == 2
\* pic_eoi is called with lines 0 .. MaxEoiIrq
MaxEoiIrq == 15
\* the console functions are called at most this many times after console_init
MaxConsoleCalls == 3
\* terminal_write_line is called at most this many times in a run
MaxTerminalCalls == 2

(* Program constants *)

PIC_MASTER_COMMAND_PORT == 32
PIC_MASTER_DATA_PORT == 33
PIC_SLAVE_COMMAND_PORT == 160
PIC_SLAVE_DATA_PORT == 161
WAIT_PORT == 128
NumVectors == 256
GdtSlots == 8192
EntryBytes == 8
IdtLoadSize == 255
KmainIrq0Offset == 32
KmainIrq8Offset == 40
KERNEL_CS == 8
KERNEL_DS == 16
FlatLimit == 1048575
TestVector == 128
NumExceptions == 32
CONSOLE_WIDTH == 80
CONSOLE_HEIGHT == 25
CONSOLE_COLOR_LIGHT_GREY == 7
CONSOLE_COLOR_BLACK == 0
TERMINAL_WIDTH == 80
TERMINAL_HEIGHT == 1024

NULL == "NULL"
Vectors == 0 .. NumVectors - 1

Bit(x, n) == (x \div (2 ^ n)) % 2

MaskValues == (0 .. MaxMaskLow) \cup { 255 - k : k \in 0 .. MaxMaskLow }

----------------------------------------------------------------------------
(* Port I/O and the 8259A behind it *)

\* One chip: imr = interrupt mask register, base = vector base (ICW2),
\* init = 0 when operational, else the number of the ICW the data port expects,
\* icw4 = whether the pending initialisation expects an ICW4.
Chip(imr, base, init, icw4) == [imr |-> imr, base |-> base, init |-> init, icw4 |-> icw4]

\* outb to the command port: a byte with bit 4 set is ICW1, which starts the
\* initialisation sequence and clears the mask register; anything else is an
\* OCW2/OCW3 that leaves the registers modelled here alone.
ChipCommand(c, val) ==
    IF Bit(val, 4) = 1
    THEN Chip(0, c.base, 2, Bit(val, 0) = 1)
    ELSE c

\* outb to the data port: ICW2 (vector base, low three bits ignored), ICW3,
\* ICW4 while initialising; the mask register (OCW1) otherwise.
ChipData(c, val) ==
    CASE c.init = 2 -> Chip(c.imr, val - (val % 8), 3, c.icw4)
      [] c.init = 3 -> Chip(c.imr, c.base, IF c.icw4 THEN 4 ELSE 0, c.icw4)
      [] c.init = 4 -> Chip(c.imr, c.base, 0, c.icw4)
      [] OTHER      -> Chip(val, c.base, 0, c.icw4)

\* port_write_8(port, val): the device state after the outb
port_write_8(p, port, val) ==
    CASE port = PIC_MASTER_COMMAND_PORT -> [p EXCEPT !.master = ChipCommand(@, val)]
      [] port = PIC_MASTER_DATA_PORT    -> [p EXCEPT !.master = ChipData(@, val)]
      [] port = PIC_SLAVE_COMMAND_PORT  -> [p EXCEPT !.slave = ChipCommand(@, val)]
      [] port = PIC_SLAVE_DATA_PORT     -> [p EXCEPT !.slave = ChipData(@, val)]
      [] OTHER                          -> p

\* port_read_8(port): the byte the inb returns (the data port reads the mask)
port_read_8(p, port) ==
    CASE port = PIC_MASTER_DATA_PORT -> p.master.imr
      [] port = PIC_SLAVE_DATA_PORT  -> p.slave.imr
      [] OTHER                       -> 0

\* A port operation of a routine: an inb whose result goes to local `dst`, or
\* an outb of `val`.
In(port, dst) == [op |-> "in", port |-> port, val |-> 0, dst |-> dst]
Out(port, val) == [op |-> "out", port |-> port, val |-> val, dst |-> "none"]

\* port_wait(): a dummy write of 0 to port 0x80
port_wait == Out(WAIT_PORT, 0)

\* End-of-interrupt sent to the master whatever the line
pic_eoi_master_only(irq) == << Out(PIC_MASTER_COMMAND_PORT, 32) >>

\* pic_eoi(irq), src/cpu/pic.h 7: the port operations that acknowledge line
\* irq: the non-specific end-of-interrupt command (0x20) to the slave's
\* command port for a slave line, and to the master's in every case
pic_eoi(irq) ==
    IF irq > 7
    THEN << Out(PIC_SLAVE_COMMAND_PORT, 32), Out(PIC_MASTER_COMMAND_PORT, 32) >>
    ELSE << Out(PIC_MASTER_COMMAND_PORT, 32) >>

----------------------------------------------------------------------------
(* pic_remap, src/cpu/pic.c *)

\* pic_remap with the masks read only after the initialization commands
pic_remap_late_read(irq0_offset, irq8_offset, m1, m2) ==
    << Out(PIC_MASTER_COMMAND_PORT, 17), port_wait,
       Out(PIC_SLAVE_COMMAND_PORT, 17), port_wait,
       In(PIC_MASTER_DATA_PORT, "mask1"),
       In(PIC_SLAVE_DATA_PORT, "mask2"),
       Out(PIC_MASTER_DATA_PORT, irq0_offset), port_wait,
       Out(PIC_SLAVE_DATA_PORT, irq8_offset), port_wait,
       Out(PIC_MASTER_DATA_PORT, 4), port_wait,
       Out(PIC_SLAVE_DATA_PORT, 2), port_wait,
       Out(PIC_MASTER_DATA_PORT, 1), port_wait,
       Out(PIC_SLAVE_DATA_PORT, 1), port_wait,
       Out(PIC_MASTER_DATA_PORT, m1),
       Out(PIC_SLAVE_DATA_PORT, m2) >>

\* pic_remap without the two mask-restoring writes
pic_remap_no_restore(irq0_offset, irq8_offset, m1, m2) ==
    << In(PIC_MASTER_DATA_PORT, "mask1"),
       In(PIC_SLAVE_DATA_PORT, "mask2"),
       Out(PIC_MASTER_COMMAND_PORT, 17), port_wait,
       Out(PIC_SLAVE_COMMAND_PORT, 17), port_wait,
       Out(PIC_MASTER_DATA_PORT, irq0_offset), port_wait,
       Out(PIC_SLAVE_DATA_PORT, irq8_offset), port_wait,
       Out(PIC_MASTER_DATA_PORT, 4), port_wait,
       Out(PIC_SLAVE_DATA_PORT, 2), port_wait,
       Out(PIC_MASTER_DATA_PORT, 1), port_wait,
       Out(PIC_SLAVE_DATA_PORT, 1), port_wait >>

\* pic_remap sending each vector offset to the other controller
pic_remap_swapped_offsets(irq0_offset, irq8_offset, m1, m2) ==
    << In(PIC_MASTER_DATA_PORT, "mask1"),
       In(PIC_SLAVE_DATA_PORT, "mask2"),
       Out(PIC_MASTER_COMMAND_PORT, 17), port_wait,
       Out(PIC_SLAVE_COMMAND_PORT, 17), port_wait,
       Out(PIC_MASTER_DATA_PORT, irq8_offset), port_wait,
       Out(PIC_SLAVE_DATA_PORT, irq0_offset), port_wait,
       Out(PIC_MASTER_DATA_PORT, 4), port_wait,
       Out(PIC_SLAVE_DATA_PORT, 2), port_wait,
       Out(PIC_MASTER_DATA_PORT, 1), port_wait,
       Out(PIC_SLAVE_DATA_PORT, 1), port_wait,
       Out(PIC_MASTER_DATA_PORT, m1),
       Out(PIC_SLAVE_DATA_PORT, m2) >>

\* The port operations of pic_remap(irq0_offset, irq8_offset) in program
\* order; m1 and m2 are the locals mask1 and mask2 at the time of the write.
pic_remap(irq0_offset, irq8_offset, m1, m2) ==
    << In(PIC_MASTER_DATA_PORT, "mask1"),
       In(PIC_SLAVE_DATA_PORT, "mask2"),
       Out(PIC_MASTER_COMMAND_PORT, 17), port_wait,
       Out(PIC_SLAVE_COMMAND_PORT, 17), port_wait,
       Out(PIC_MASTER_DATA_PORT, irq0_offset), port_wait,
       Out(PIC_SLAVE_DATA_PORT, irq8_offset), port_wait,
       Out(PIC_MASTER_DATA_PORT, 4), port_wait,
       Out(PIC_SLAVE_DATA_PORT, 2), port_wait,
       Out(PIC_MASTER_DATA_PORT, 1), port_wait,
       Out(PIC_SLAVE_DATA_PORT, 1), port_wait,
       Out(PIC_MASTER_DATA_PORT, m1),
       Out(PIC_SLAVE_DATA_PORT, m2) >>

PicOps == pic_remap(picArgs.irq0_offset, picArgs.irq8_offset, mask1, mask2)
PicLen == Len(PicOps)
InPicRemap == picpc >= 1

\* Entry into pic_remap with the given arguments
PicEnter(o0, o8) ==
    /\ picpc = 0
    /\ picpc' = 1
    /\ picArgs' = [irq0_offset |-> o0, irq8_offset |-> o8]
    /\ portlog' = << >>
    /\ entryImr' = <<pic.master.imr, pic.slave.imr>>
    /\ UNCHANGED <<pic, mask1, mask2, calls, retImr, harnessVars>>

\* One port operation of pic_remap
PicStep ==
    /\ cpu = "running"
    /\ picpc \in 1 .. PicLen
    /\ LET o == PicOps[picpc]
           read == port_read_8(pic, o.port)
       IN  /\ pic' = IF o.op = "out" THEN port_write_8(pic, o.port, o.val) ELSE pic
           /\ mask1' = IF o.op = "in" /\ o.dst = "mask1" THEN read ELSE mask1
           /\ mask2' = IF o.op = "in" /\ o.dst = "mask2" THEN read ELSE mask2
           /\ portlog' = Append(portlog,
                  [op |-> o.op, port |-> o.port,
                   val |-> IF o.op = "in" THEN read ELSE o.val])
    /\ picpc' = picpc + 1
    /\ UNCHANGED <<picArgs, entryImr, calls, retImr, iflag, harnessVars>>
    /\ UNCHANGED <<bootVars, cpuVars>>

\* pic_remap returns
PicLeave ==
    /\ picpc = PicLen + 1
    /\ picpc' = 0
    /\ calls' = calls + 1
    /\ retImr' = Append(retImr, <<pic.master.imr, pic.slave.imr>>)
    /\ UNCHANGED <<pic, picArgs, mask1, mask2, portlog, entryImr, harnessVars>>

----------------------------------------------------------------------------
(* Segment descriptors, src/cpu/gdt.h and src/cpu/gdt.c *)

\* struct gdt_entry, all bit-fields zero (a slot of the static table that was
\* never stored to, and `struct gdt_entry entry = {0}`)
ZeroGdtEntry ==
    [limit_0_15 |-> 0, base_0_15 |-> 0, base_16_23 |-> 0, access |-> 0,
     limit_16_19 |-> 0, flags |-> 0, base_24_31 |-> 0]

\* x & mask for the mask that selects bits lo .. lo+width-1: the bits stay
\* where they are
AndField(x, lo, width) == ((x \div (2 ^ lo)) % (2 ^ width)) * (2 ^ lo)

\* Assignment to an unsigned bit-field or integer of `width` bits keeps the
\* low `width` bits of the value
Trunc(x, width) == x % (2 ^ width)

\* fill_common with the masked bits stored unshifted, as gdt_make_entry does
fill_common_no_shift(entry, base, limit) ==
    [entry EXCEPT !.base_0_15 = Trunc(AndField(base, 0, 16), 16),
                  !.base_16_23 = Trunc(AndField(base, 16, 8), 8),
                  !.base_24_31 = Trunc(AndField(base, 24, 8), 8),
                  !.limit_0_15 = Trunc(AndField(limit, 0, 16), 16),
                  !.limit_16_19 = Trunc(AndField(limit, 16, 4), 4)]

\* fill_common(&entry, base, limit)
fill_common(entry, base, limit) ==
    [entry EXCEPT !.base_0_15 = base % 65536,
                  !.base_16_23 = (base \div 65536) % 256,
                  !.base_24_31 = (base \div 16777216) % 256,
                  !.limit_0_15 = limit % 65536,
                  !.limit_16_19 = (limit \div 65536) % 16]

\* gdt_make_entry(base, limit, access, flags), the inline builder of
\* src/gdt.h: each masked value is assigned to its bit-field as it is
gdt_make_entry_inline(base, limit, access, flags) ==
    [limit_0_15  |-> Trunc(AndField(limit, 0, 16), 16),
     limit_16_19 |-> Trunc(AndField(limit, 16, 4), 4),
     base_0_15   |-> Trunc(AndField(base, 0, 16), 16),
     base_16_23  |-> Trunc(AndField(base, 16, 8), 8),
     base_24_31  |-> Trunc(AndField(base, 24, 8), 8),
     access      |-> Trunc(access, 8),
     flags       |-> Trunc(flags, 4)]

\* gdt_make_entry(base, limit, access, privilege, flags) of src/gdt.c: the
\* same fields, then the privilege bits replaced, bit 4 set, flags & 12
gdt_make_entry(base, limit, access, privilege, flags) ==
    LET a0 == Trunc(access, 8)
        a1 == Trunc((a0 - AndField(a0, 5, 2)) + (privilege % 4) * 32, 8)
        a2 == IF Bit(a1, 4) = 1 THEN a1 ELSE a1 + 16
    IN  [limit_0_15  |-> Trunc(AndField(limit, 0, 16), 16),
         limit_16_19 |-> Trunc(AndField(limit, 16, 4), 4),
         base_0_15   |-> Trunc(AndField(base, 0, 16), 16),
         base_16_23  |-> Trunc(AndField(base, 16, 8), 8),
         base_24_31  |-> Trunc(AndField(base, 24, 8), 8),
         access      |-> a2,
         flags       |-> Trunc(AndField(flags, 2, 2), 4)]

\* struct gdt_common_segment_settings
CommonSettings(granularity, present, accessed, privilege) ==
    [granularity |-> granularity, present |-> present,
     accessed |-> accessed, privilege |-> privilege]

\* The entry gdt_set_code_segment builds (the set bits never overlap, so the
\* bitwise or is a sum)
CodeEntry(base, limit, settings) ==
    [fill_common(ZeroGdtEntry, base, limit) EXCEPT
        !.flags = 4 + 8 * settings.common.granularity,
        !.access = 24 + settings.common.accessed + 2 * settings.readable
                   + 4 * settings.conforming + 32 * settings.common.privilege
                   + 128 * settings.common.present]

\* The entry gdt_set_data_segment builds
DataEntry(base, limit, settings) ==
    [fill_common(ZeroGdtEntry, base, limit) EXCEPT
        !.flags = 4 + 8 * settings.common.granularity,
        !.access = 16 + settings.common.accessed + 2 * settings.writable
                   + 4 * settings.direction + 32 * settings.common.privilege
                   + 128 * settings.common.present]

\* gdt[k] of the static table
GdtAt(k) == IF k \in DOMAIN gdt THEN gdt[k] ELSE ZeroGdtEntry

\* Entry of a segment setter up to and including `pushf; cli`
GdtSetEnter(args) ==
    /\ gpc = 0
    /\ gpc' = 1
    /\ gArgs' = args
    /\ savedFlags' = iflag
    /\ iflag' = FALSE
    /\ UNCHANGED gdt

\* gdt[segment / 8U] = entry
GdtSetStore ==
    /\ cpu = "running"
    /\ gpc = 1
    /\ gpc' = 2
    /\ LET entry == IF gArgs.kind = "code"
                    THEN CodeEntry(gArgs.base, gArgs.limit, gArgs.settings)
                    ELSE DataEntry(gArgs.base, gArgs.limit, gArgs.settings)
           slot == gArgs.segment \div 8
       IN  gdt' = [k \in DOMAIN gdt \cup {slot} |-> IF k = slot THEN entry ELSE gdt[k]]
    /\ UNCHANGED <<kpc, i, gArgs, savedFlags, gdtr, idtr, loadArg, idt_entries,
                   handlers, iflag>>
    /\ UNCHANGED <<picVars, cpuVars>>

\* A setter that returns without popf
GdtSetLeave_no_popf ==
    /\ gpc = 2
    /\ gpc' = 0
    /\ UNCHANGED <<iflag, gdt, gArgs, savedFlags>>

\* popf, and the setter returns
GdtSetLeave ==
    /\ gpc = 2
    /\ gpc' = 0
    /\ iflag' = savedFlags
    /\ UNCHANGED <<gdt, gArgs, savedFlags>>

\* gdt_init(): the arguments it passes to gdt_load (size is a uint16_t)
gdt_init == [table |-> "gdt", size |-> (GdtSlots * EntryBytes - 1) % 65536]

\* gdt_load / idt_load: the table register takes the pointer and the limit
\* it is given
table_load(arg) == [base |-> arg.table, limit |-> arg.size]

NoLoad == [table |-> "none", size |-> 0]

----------------------------------------------------------------------------
(* Interrupt gates and the dispatch table *)

\* struct idt_entry, all bit-fields zero (static storage)
ZeroGate ==
    [offset_0_15 |-> 0, selector |-> 0, zero |-> 0, type |-> 0,
     storage_segment |-> 0, priv_level |-> 0, present |-> 0, offset_16_31 |-> 0]

\* idt_make_entry(offset, selector, type, priv, present) of src/x86/idt.c:
\* selector, type, priv and present are uint8_t parameters
idt_make_entry(offset, selector, type, priv, present) ==
    [offset_0_15 |-> Trunc(AndField(offset, 0, 16), 16),
     offset_16_31 |-> Trunc(AndField(offset, 16, 16), 16),
     selector |-> Trunc(Trunc(selector, 8), 16),
     zero |-> 0,
     type |-> Trunc(Trunc(type, 8), 4),
     priv_level |-> Trunc(Trunc(priv, 8), 2),
     present |-> IF Trunc(present, 8) # 0 THEN 1 ELSE 0,
     storage_segment |-> 0]

\* idt_make_int_gate(offset, selector, present, priv): a 32-bit interrupt gate
idt_make_int_gate(offset, selector, present, priv) ==
    [offset_0_15 |-> offset % 65536, selector |-> selector % 65536, zero |-> 0,
     type |-> 14, storage_segment |-> 0, priv_level |-> priv % 4,
     present |-> IF present # 0 THEN 1 ELSE 0,
     offset_16_31 |-> (offset \div 65536) % 65536]

\* __isr_trampolines[256], filled at link time and never written: the entry
\* stubs are laid out one after another in the kernel image, which loads at
\* 1 MiB
isr_trampolines == [v \in Vectors |-> 1052672 + 16 * v]

\* The table read at a fixed index, whatever the vector
interrupt_get_trampoline_addr_shared(v) == isr_trampolines[0]

\* interrupt_get_trampoline_addr(i): i is a uint8_t
interrupt_get_trampoline_addr(v) == isr_trampolines[v % 256]

\* interrupt_get_handler(i)
interrupt_get_handler(v) == handlers[v]

\* interrupt_set_handler(i, h): the table after the store
interrupt_set_handler(tbl, v, h) == [tbl EXCEPT ![v] = h]

----------------------------------------------------------------------------
(* The CPU's interrupt delivery and the entry stubs *)

\* The gate of vector w can be used: IDTR names the kernel's table, the gate
\* lies within the limit, and it is marked present.
GateUsable(w) ==
    /\ idtr.base = "idt_entries"
    /\ EntryBytes * w + (EntryBytes - 1) <= idtr.limit
    /\ idt_entries[w].present = 1

\* The vector whose gate the CPU ends up using for a request on v: v itself,
\* else general protection (13), else double fault (8), else none (-1, a
\* triple fault)
GateFor(v) ==
    CASE GateUsable(v)  -> v
      [] GateUsable(13) -> 13
      [] GateUsable(8)  -> 8
      [] OTHER          -> -1

\* The entry stub at the address a gate holds (-1 when the address is no stub)
StubAt(gate) ==
    LET addr == gate.offset_16_31 * 65536 + gate.offset_0_15
        S == { t \in Vectors : interrupt_get_trampoline_addr(t) = addr }
    IN  IF S = {} THEN -1 ELSE CHOOSE t \in S : TRUE

\* What the entry stub of vector t runs: the registered handler, or the
\* default halt action when none is registered
trampoline(t) == IF handlers[t] = NULL THEN "default_halt" ELSE handlers[t]

\* What a request on vector v ends up running
Resolve(v) ==
    LET w == GateFor(v)
        t == IF w = -1 THEN -1 ELSE StubAt(idt_entries[w])
    IN  IF t = -1 THEN "reset" ELSE trampoline(t)

NoDelivery == [vector |-> -1, registered |-> NULL, invoked |-> "none"]

\* Delivery of an interrupt on vector v: the CPU pushes the context, an
\* interrupt gate clears IF, and the entry stub is entered
Deliver(v) ==
    LET run == Resolve(v)
    IN  /\ lastDelivery' = [vector |-> v, registered |-> interrupt_get_handler(v),
                            invoked |-> run]
        /\ iretIF' = iflag
        /\ iflag' = FALSE
        /\ cpu' = IF run = "reset" THEN "reset" ELSE "handler"
        /\ UNCHANGED <<ranTest, lastSet>>

\* Line `line` of the cascaded controllers is open: both chips operational,
\* the line unmasked, and for a slave line the cascade input (line 2) too
LineOpen(line) ==
    /\ pic.master.init = 0
    /\ pic.slave.init = 0
    /\ IF line < 8
       THEN Bit(pic.master.imr, line) = 0
       ELSE Bit(pic.slave.imr, line - 8) = 0 /\ Bit(pic.master.imr, 2) = 0

\* The vector a hardware line is delivered on
LineVector(line) ==
    IF line < 8 THEN pic.master.base + line ELSE pic.slave.base + (line - 8)

\* A hardware interrupt arrives between two instructions
HardwareIrq ==
    /\ cpu = "running"
    /\ iflag
    /\ \E line \in 0 .. 15 :
          /\ LineOpen(line)
          /\ Deliver(LineVector(line))
    /\ UNCHANGED <<bootVars, picVars>>

\* Handler bodies where panic comes back like any other handler
HandlerRun_panic_returns ==
    /\ cpu = "handler"
    /\ cpu' = "running"
    /\ iflag' = iretIF
    /\ ranTest' = IF lastDelivery.invoked = "test_handler" /\ ranTest < MaxRanTest
                  THEN ranTest + 1 ELSE ranTest
    /\ UNCHANGED <<iretIF, lastDelivery, lastSet>>
    /\ UNCHANGED <<bootVars, picVars>>

\* The body of the handler the stub called: test_handler (kernel.c 24-29)
\* returns and iret restores the interrupted context; panic (kernel.c 16-22)
\* and the default action disable interrupts and halt for good.
HandlerRun ==
    /\ cpu = "handler"
    /\ IF lastDelivery.invoked = "test_handler"
       THEN /\ cpu' = "running"
            /\ iflag' = iretIF
            /\ ranTest' = IF ranTest < MaxRanTest THEN ranTest + 1 ELSE ranTest
       ELSE /\ cpu' = "halted"
            /\ iflag' = FALSE
            /\ UNCHANGED ranTest
    /\ UNCHANGED <<iretIF, lastDelivery, lastSet>>
    /\ UNCHANGED <<bootVars, picVars>>

----------------------------------------------------------------------------
(* The text console, src/console.c *)

\* The console's state: the cursor, the cells of the buffer at 0xB8000 that
\* differ from the blank cell, and the highest cell index console_put_char
\* has stored to during the call in progress (-1: none)
Console(row, column, buf, top) == [row |-> row, column |-> column, buffer |-> buf, top |-> top]

\* vga_entry(c, color)
vga_entry(c, color) == c + 256 * color

\* console_set_color(fg, bg): the colour byte
console_set_color(fg, bg) == AndField(bg, 4, 4) + AndField(fg, 0, 4)

\* console_color after console_init, the only caller of console_set_color
console_color == console_set_color(CONSOLE_COLOR_LIGHT_GREY, CONSOLE_COLOR_BLACK)

\* The cell console_clear writes
BlankCell == vga_entry(32, console_color)

ScreenCells == 0 .. CONSOLE_WIDTH * CONSOLE_HEIGHT - 1

\* console_buffer[k]
CellIn(buf, k) == IF k \in DOMAIN buf THEN buf[k] ELSE BlankCell

\* The cells listed, as a table of the cells themselves
Cells(f) == f @@ << >>

\* console_buffer[k] = cell
Store(buf, k, cell) ==
    IF cell = BlankCell
    THEN Cells([j \in DOMAIN buf \ {k} |-> buf[j]])
    ELSE (k :> cell) @@ buf

\* console_clear(): every cell of the screen becomes the blank cell
console_clear(c) ==
    [c EXCEPT !.buffer = Cells([j \in DOMAIN c.buffer \ ScreenCells |-> c.buffer[j]])]

\* console_init()
console_init == console_clear(Console(0, 0, << >>, -1))

\* console_scroll(lines).  The copy loop (47-48) reads cell copy_read + i
\* after storing cell i, and copy_read + i > i is never a cell it has already
\* stored to, so every read sees the buffer as it was at the call; the
\* second loop (50-51) then blanks every cell from copy_read on.
console_scroll(c, lines) ==
    LET cleared == IF lines >= CONSOLE_HEIGHT
                   THEN [console_clear(c) EXCEPT !.row = 0]
                   ELSE LET copy_count == lines * CONSOLE_WIDTH
                            copy_read == (CONSOLE_HEIGHT - lines) * CONSOLE_WIDTH
                            cell(k) == IF k >= copy_read /\ k \in ScreenCells
                                       THEN BlankCell
                                       ELSE IF k < copy_count
                                            THEN CellIn(c.buffer, copy_read + k)
                                            ELSE CellIn(c.buffer, k)
                            dom == { k \in DOMAIN c.buffer \cup
                                           { j - copy_read : j \in DOMAIN c.buffer } :
                                     k >= 0 /\ cell(k) # BlankCell }
                        IN  [c EXCEPT !.buffer = Cells([k \in dom |-> cell(k)])]
    IN  [cleared EXCEPT !.row = IF @ >= lines THEN @ - lines ELSE 0]

\* console_advance_row(rows): the test is on the argument
console_advance_row(c, rows) ==
    LET moved == [c EXCEPT !.row = @ + rows]
    IN  IF rows >= CONSOLE_HEIGHT
        THEN [console_scroll(moved, moved.row - CONSOLE_HEIGHT + 1)
                EXCEPT !.row = CONSOLE_HEIGHT - 1]
        ELSE moved

\* console_advance_column(columns): the console after it, and its return value
console_advance_column(c, columns) ==
    [console |-> [c EXCEPT !.column = (c.column + columns) % CONSOLE_WIDTH],
     retval |-> (c.column + columns) \div CONSOLE_WIDTH]

\* console_advance_cursor(rows, columns)
console_advance_cursor(c, rows, columns) ==
    LET col == console_advance_column(c, columns)
    IN  console_advance_row(col.console, rows + col.retval)

\* console_new_line()
console_new_line(c) == [console_advance_row(c, 1) EXCEPT !.column = 0]

\* console_put_char(ch)
console_put_char(c, ch) ==
    LET at == c.row * CONSOLE_WIDTH + c.column
        stored == [c EXCEPT !.buffer = Store(@, at, vga_entry(ch, console_color)),
                            !.top = IF at > @ THEN at ELSE @]
        stepped == IF stored.column + 1 = CONSOLE_WIDTH
                   THEN [stored EXCEPT !.column = 0, !.row = @ + 1]
                   ELSE [stored EXCEPT !.column = @ + 1]
    IN  IF stepped.row = CONSOLE_HEIGHT THEN console_scroll(stepped, 1) ELSE stepped

\* The loop of console_write_line: console_put_char on characters lo .. hi
\* of the string in turn: the first half of the range, and once the console
\* after it is known, the second
RECURSIVE PutChars(_, _, _, _)
PutChars(c, str, lo, hi) ==
    IF lo > hi THEN c
    ELSE IF lo = hi THEN console_put_char(c, str[lo])
    ELSE LET mid == (lo + hi) \div 2
             half == PutChars(c, str, lo, mid)
         IN  IF half.row >= 0 THEN PutChars(half, str, mid + 1, hi) ELSE half

\* console_write_line(str)
console_write_line(c, str) == console_new_line(PutChars(c, str, 1, Len(str)))

\* The console variables as a console state, and their update to one
ConsoleNow == Console(console_row, console_column, console_buffer, -1)

SetConsole(c) ==
    /\ console_row' = c.row
    /\ console_column' = c.column
    /\ console_buffer' = c.buffer

\* The characters of a string: the codes of the letters cycling from `first`
\* over `span` letters, `len` of them
Letters(first, span, len) == [k \in 1 .. len |-> first + ((k - 1) % span)]

\* The strings kmain prints (kernel.c 84-93)
HelloLine == <<72, 101, 108, 108, 111, 32, 119, 111, 114, 108, 100, 32, 102, 114, 111,
               109, 32, 97, 32, 107, 101, 114, 110, 101, 108, 33>>
JustATestLine == <<84, 104, 105, 115, 32, 105, 115, 32, 106, 117, 115, 116, 32, 97, 32,
                   116, 101, 115, 116, 46>>
AlphabetLine == Letters(65, 26, 16 * 26)
TestNumberLine(digit) == <<84, 101, 115, 116, 32, 110, 117, 109, 98, 101, 114, 32, digit>>
TestScrollLine == <<84, 101, 115, 116, 32, 115, 99, 114, 111, 108, 108>>

\* The console calls of kmain, kernel.c 84-93, each made on the console the
\* one before it left
KmainConsoleOutput(c) ==
    LET c1 == console_write_line(c, HelloLine)
        c2 == console_write_line(c1, JustATestLine)
        c3 == console_write_line(c2, AlphabetLine)
        c4 == console_advance_cursor(c3, 2, 3)
        c5 == console_write_line(c4, TestNumberLine(50))
        c6 == console_write_line(c5, TestNumberLine(51))
        c7 == console_scroll(c6, 2)
    IN  IF /\ c1.row >= 0 /\ c2.row >= 0 /\ c3.row >= 0 /\ c4.row >= 0
           /\ c5.row >= 0 /\ c6.row >= 0 /\ c7.row >= 0
        THEN console_write_line(c7, TestScrollLine)
        ELSE c

----------------------------------------------------------------------------
(* The terminals, src/core/terminal.c and src/io/terminal.c *)

\* Both terminals keep a circular array of TERMINAL_HEIGHT lines; the model
\* keeps the lines written so far, each as its TERMINAL_WIDTH cells.  The
\* other lines hold what initialisation left: spaces in a struct
\* terminal_buffer, zeroes in io/terminal.c's static buffer.

\* The line a clearing loop leaves (core/terminal.c 20-21, io/terminal.c 22-23)
ClearedLine == [k \in 1 .. TERMINAL_WIDTH |-> 0]

\* lines[l]
TerminalLine(lines, l, fill) ==
    IF l \in DOMAIN lines THEN lines[l] ELSE [k \in 1 .. TERMINAL_WIDTH |-> fill]

\* cur_color after terminal_init: vga_make_color(light grey, black)
cur_color == AndField(CONSOLE_COLOR_BLACK, 4, 4) + AndField(CONSOLE_COLOR_LIGHT_GREY, 0, 4)

\* The loop that measures the string (30-38, 66-74): the index of its NUL
strlen(str) == Len(str)

\* write_line_impl(tb, str + from, str_length) of core/terminal.c: the bottom
\* line is cleared, then takes the characters
core_write_line_impl(t, str, from, str_length) ==
    [t EXCEPT !.buf = (t.bottom_line :>
                          [k \in 1 .. TERMINAL_WIDTH |->
                              IF k <= str_length THEN str[from + k] ELSE 0]) @@ @]

\* One pass of the loop of terminal_write_line, core/terminal.c 43-53, on
\* the loop's state [tb, cur_ndx]
core_write_pass(st, str, str_length) ==
    LET line_length == IF str_length - st.cur_ndx < 80
                       THEN str_length - st.cur_ndx ELSE 80
        written == core_write_line_impl(st.tb, str, st.cur_ndx, line_length)
        next == (written.bottom_line + 1) % TERMINAL_HEIGHT
    IN  [tb |-> [bottom_line |-> next, buf |-> (next :> ClearedLine) @@ written.buf],
         cur_ndx |-> st.cur_ndx + line_length]

\* write_line_impl(str + from, str_length) of io/terminal.c
io_write_line_impl(t, str, from, str_length) ==
    [t EXCEPT !.buffer = (t.bottom :>
                             [k \in 1 .. TERMINAL_WIDTH |->
                                 IF k <= str_length
                                 THEN (str[from + k] + 256 * cur_color) % 65536
                                 ELSE 0]) @@ @]

\* scroll() of io/terminal.c
io_scroll(t) ==
    LET next == IF t.bottom + 1 = TERMINAL_HEIGHT THEN 0 ELSE t.bottom + 1
    IN  [bottom |-> next, buffer |-> (next :> ClearedLine) @@ t.buffer]

\* One pass of the loop of terminal_write_line, io/terminal.c 80-82: cur_ndx
\* is not advanced
io_write_pass(st, str, str_length) ==
    LET line_length == IF str_length - st.cur_ndx < 80
                       THEN str_length - st.cur_ndx ELSE 80
    IN  [t |-> io_scroll(io_write_line_impl(st.t, str, st.cur_ndx, line_length)),
         cur_ndx |-> st.cur_ndx]

\* Passes lo .. hi of the loop of core/terminal.c's terminal_write_line: the
\* first half of them, and once the state after it is known, the second
RECURSIVE CorePasses(_, _, _, _, _)
CorePasses(st, str, str_length, lo, hi) ==
    IF lo > hi THEN st
    ELSE IF lo = hi THEN core_write_pass(st, str, str_length)
    ELSE LET mid == (lo + hi) \div 2
             half == CorePasses(st, str, str_length, lo, mid)
         IN  IF half.cur_ndx >= 0 /\ half.tb.bottom_line >= 0
             THEN CorePasses(half, str, str_length, mid + 1, hi) ELSE half

\* The same for io/terminal.c's terminal_write_line
RECURSIVE IoPasses(_, _, _, _, _)
IoPasses(st, str, str_length, lo, hi) ==
    IF lo > hi THEN st
    ELSE IF lo = hi THEN io_write_pass(st, str, str_length)
    ELSE LET mid == (lo + hi) \div 2
             half == IoPasses(st, str, str_length, lo, mid)
         IN  IF half.cur_ndx >= 0 /\ half.t.bottom >= 0
             THEN IoPasses(half, str, str_length, mid + 1, hi) ELSE half

\* terminal_write_line(tb, str) of core/terminal.c
core_terminal_write_line(t, str) ==
    LET str_length == strlen(str)
        num_lines == (str_length + TERMINAL_WIDTH - 1) \div TERMINAL_WIDTH
    IN  CorePasses([tb |-> t, cur_ndx |-> 0], str, str_length, 1, num_lines).tb

\* terminal_write_line(str) of io/terminal.c; draw() copies the buffer to the
\* screen and changes nothing here
io_terminal_write_line(t, str) ==
    LET str_length == strlen(str)
        num_lines == (str_length + TERMINAL_WIDTH - 1) \div TERMINAL_WIDTH
    IN  IoPasses([t |-> t, cur_ndx |-> 0], str, str_length, 1, num_lines).t

----------------------------------------------------------------------------
(* kmain, src/kernel.c *)

\* kmain with INTERRUPT_ENABLE() moved ahead of pic_remap
KmainOrder_sti_before_remap ==
    << "console_init",
       "gdt_set_code_segment", "gdt_set_data_segment", "gdt_init", "gdt_load",
       "reload_segments",
       "sti",
       "pic_remap",
       "idt_fill_loop", "exception_loop",
       "idt_load", "lidt",
       "set_test_handler",
       "console_output",
       "raise" >>

\* kmain with INTERRUPT_ENABLE() moved ahead of idt_load
KmainOrder_sti_before_idt_load ==
    << "console_init",
       "gdt_set_code_segment", "gdt_set_data_segment", "gdt_init", "gdt_load",
       "reload_segments",
       "pic_remap",
       "idt_fill_loop", "exception_loop",
       "sti",
       "idt_load", "lidt",
       "set_test_handler",
       "console_output",
       "raise" >>

\* The statements of kmain (setup_flat_gdt inlined) in program order
KmainOrder ==
    << "console_init",
       "gdt_set_code_segment", "gdt_set_data_segment", "gdt_init", "gdt_load",
       "reload_segments",
       "pic_remap",
       "idt_fill_loop", "exception_loop",
       "idt_load", "lidt", "sti",
       "set_test_handler",
       "console_output",
       "raise" >>

At(label) ==
    /\ cpu = "running"
    /\ kpc \in 1 .. Len(KmainOrder)
    /\ KmainOrder[kpc] = label

\* The arguments setup_flat_gdt passes to the two setters
KmainGdtArgs(label) ==
    LET common == CommonSettings(1, 1, 0, 0)
    IN  IF label = "gdt_set_code_segment"
        THEN [kind |-> "code", segment |-> KERNEL_CS, base |-> 0, limit |-> FlatLimit,
              settings |-> [conforming |-> 0, readable |-> 1, writable |-> 0,
                            direction |-> 0, common |-> common]]
        ELSE [kind |-> "data", segment |-> KERNEL_DS, base |-> 0, limit |-> FlatLimit,
              settings |-> [conforming |-> 0, readable |-> 0, writable |-> 1,
                            direction |-> 0, common |-> common]]

NoGdtArgs == KmainGdtArgs("gdt_set_code_segment")

\* console_init (56) and the console output of 84-93
KConsole ==
    /\ At("console_init") \/ At("console_output")
    /\ kpc' = kpc + 1
    /\ SetConsole(IF At("console_init") THEN console_init
                  ELSE KmainConsoleOutput(ConsoleNow))
    /\ UNCHANGED <<i, gdt, gpc, gArgs, savedFlags, gdtr, idtr, loadArg, idt_entries,
                   handlers, iflag>>
    /\ UNCHANGED <<pic, picpc, picArgs, mask1, mask2, portlog, entryImr, calls, retImr>>
    /\ UNCHANGED <<fnIn, fnOut, hcalls, terminalVars, cpuVars>>

\* gdt_set_code_segment(0x08, ...) / gdt_set_data_segment(0x10, ...) is entered
KGdtSetEnter ==
    /\ \E label \in {"gdt_set_code_segment", "gdt_set_data_segment"} :
          /\ At(label)
          /\ GdtSetEnter(KmainGdtArgs(label))
    /\ UNCHANGED <<kpc, i, gdtr, idtr, loadArg, idt_entries, handlers>>
    /\ UNCHANGED <<picVars, cpuVars>>

\* ... and returns
KGdtSetLeave ==
    /\ At("gdt_set_code_segment") \/ At("gdt_set_data_segment")
    /\ GdtSetLeave
    /\ kpc' = kpc + 1
    /\ UNCHANGED <<i, gdtr, idtr, loadArg, idt_entries, handlers>>
    /\ UNCHANGED <<picVars, cpuVars>>

\* gdt_init() calls gdt_load(gdt, sizeof(gdt) - 1)
KGdtInit ==
    /\ At("gdt_init")
    /\ loadArg' = gdt_init
    /\ kpc' = kpc + 1
    /\ UNCHANGED <<i, gdt, gpc, gArgs, savedFlags, gdtr, idtr, idt_entries,
                   handlers, iflag>>
    /\ UNCHANGED <<picVars, cpuVars>>

\* gdt_load executes lgdt
KGdtLoad ==
    /\ At("gdt_load")
    /\ gdtr' = table_load(loadArg)
    /\ loadArg' = NoLoad
    /\ kpc' = kpc + 1
    /\ UNCHANGED <<i, gdt, gpc, gArgs, savedFlags, idtr, idt_entries, handlers, iflag>>
    /\ UNCHANGED <<picVars, cpuVars>>

\* helpers_reload_all_segments(0x08, 0x10)
KReloadSegments ==
    /\ At("reload_segments")
    /\ kpc' = kpc + 1
    /\ UNCHANGED <<i, gdt, gpc, gArgs, savedFlags, gdtr, idtr, loadArg, idt_entries,
                   handlers, iflag>>
    /\ UNCHANGED <<picVars, cpuVars>>

\* pic_remap(32, 40) is called
KPicCall ==
    /\ At("pic_remap")
    /\ PicEnter(KmainIrq0Offset, KmainIrq8Offset)
    /\ UNCHANGED <<bootVars, cpuVars, iflag>>

\* ... and returns
KPicReturn ==
    /\ At("pic_remap")
    /\ PicLeave
    /\ kpc' = kpc + 1
    /\ UNCHANGED <<i, gdt, gpc, gArgs, savedFlags, gdtr, idtr, loadArg, idt_entries,
                   handlers, iflag>>
    /\ UNCHANGED cpuVars

\* kmain pointing every gate at the stub of vector 0
KmainGate_stub0(v) == idt_make_int_gate(interrupt_get_trampoline_addr(0), KERNEL_CS, 1, 0)

\* The gate kmain builds for vector v (kernel.c 68, 70)
KmainGate(v) == idt_make_int_gate(interrupt_get_trampoline_addr(v), KERNEL_CS, 1, 0)

\* kmain registering a returning handler for the exception vectors
ExceptionHandler_returning == "test_handler"

\* The handler kmain registers for the exception vectors (kernel.c 74)
ExceptionHandler == "panic"

SetCall(v, h) == [vector |-> v, handler |-> h, iflag |-> iflag]
NoSetCall == [vector |-> -1, handler |-> NULL, iflag |-> FALSE]

\* for(i = 0; i < 256; ++i): clear the handler and build the gate of vector i
KIdtFill ==
    /\ At("idt_fill_loop")
    /\ IF i < NumVectors
       THEN /\ handlers' = interrupt_set_handler(handlers, i, NULL)
            /\ lastSet' = SetCall(i, NULL)
            /\ idt_entries' = [idt_entries EXCEPT ![i] = KmainGate(i)]
            /\ i' = i + 1
            /\ kpc' = kpc
       ELSE /\ i' = 0
            /\ kpc' = kpc + 1
            /\ UNCHANGED <<handlers, idt_entries, lastSet>>
    /\ UNCHANGED <<gdt, gpc, gArgs, savedFlags, gdtr, idtr, loadArg, iflag>>
    /\ UNCHANGED <<cpu, iretIF, lastDelivery, ranTest>>
    /\ UNCHANGED picVars

\* for(i = 0; i < 32; ++i) interrupt_set_handler(i, panic)
KExceptionLoop ==
    /\ At("exception_loop")
    /\ IF i < NumExceptions
       THEN /\ handlers' = interrupt_set_handler(handlers, i, ExceptionHandler)
            /\ lastSet' = SetCall(i, ExceptionHandler)
            /\ i' = i + 1
            /\ kpc' = kpc
       ELSE /\ i' = 0
            /\ kpc' = kpc + 1
            /\ UNCHANGED <<handlers, lastSet>>
    /\ UNCHANGED <<gdt, gpc, gArgs, savedFlags, gdtr, idtr, loadArg, idt_entries, iflag>>
    /\ UNCHANGED <<cpu, iretIF, lastDelivery, ranTest>>
    /\ UNCHANGED picVars

\* idt_load(idt_entries, 255) is called
KIdtLoadCall ==
    /\ At("idt_load")
    /\ loadArg' = [table |-> "idt_entries", size |-> IdtLoadSize % 65536]
    /\ kpc' = kpc + 1
    /\ UNCHANGED <<i, gdt, gpc, gArgs, savedFlags, gdtr, idtr, idt_entries,
                   handlers, iflag>>
    /\ UNCHANGED <<picVars, cpuVars>>

\* ... and executes lidt
KLidt ==
    /\ At("lidt")
    /\ idtr' = table_load(loadArg)
    /\ loadArg' = NoLoad
    /\ kpc' = kpc + 1
    /\ UNCHANGED <<i, gdt, gpc, gArgs, savedFlags, gdtr, idt_entries, handlers, iflag>>
    /\ UNCHANGED <<picVars, cpuVars>>

\* INTERRUPT_ENABLE()
KSti ==
    /\ At("sti")
    /\ iflag' = TRUE
    /\ kpc' = kpc + 1
    /\ UNCHANGED <<i, gdt, gpc, gArgs, savedFlags, gdtr, idtr, loadArg, idt_entries,
                   handlers>>
    /\ UNCHANGED <<picVars, cpuVars>>

\* interrupt_set_handler(0x80, test_handler)
KSetTestHandler ==
    /\ At("set_test_handler")
    /\ handlers' = interrupt_set_handler(handlers, TestVector, "test_handler")
    /\ lastSet' = SetCall(TestVector, "test_handler")
    /\ kpc' = kpc + 1
    /\ UNCHANGED <<i, gdt, gpc, gArgs, savedFlags, gdtr, idtr, loadArg, idt_entries,
                   iflag>>
    /\ UNCHANGED <<cpu, iretIF, lastDelivery, ranTest>>
    /\ UNCHANGED picVars

\* INTERRUPT_RAISE(0x80), the last statement of kmain: a trap resumes after
\* the instruction, a fault at it
KRaise ==
    /\ At("raise")
    /\ Deliver(TestVector)
    /\ kpc' = IF GateFor(TestVector) = TestVector THEN kpc + 1 ELSE kpc
    /\ UNCHANGED <<i, gdt, gpc, gArgs, savedFlags, gdtr, idtr, loadArg, idt_entries,
                   handlers>>
    /\ UNCHANGED picVars

KmainReturned == kpc = Len(KmainOrder) + 1

----------------------------------------------------------------------------
(* Specifications *)

\* No call under test has been made
NoCall == [fn |-> "none"]

\* The machine as the boot loader hands it over: interrupts disabled, the
\* table registers the loader's own, the controllers as the firmware left
\* them (vector bases 8 and 0x70, any masks), static storage zero.
\* The console's statics are zero, and the screen cells are followed from
\* console_init on, which blanks them before anything reads one; a caller's
\* struct terminal_buffer exists once terminal_buffer_init has run on it
\* (core/terminal.c 5-13), and io/terminal.c's statics are as terminal_init
\* leaves them (io/terminal.c 9-13).
InitScreen ==
    /\ console_row = 0
    /\ console_column = 0
    /\ console_buffer = << >>
    /\ tb = [bottom_line |-> 24, buf |-> << >>]
    /\ bottom = 24
    /\ buffer = << >>

InitMemory ==
    /\ i = 0
    /\ gdt = << >>
    /\ gpc = 0
    /\ gArgs = NoGdtArgs
    /\ savedFlags = FALSE
    /\ gdtr = [base |-> "boot", limit |-> 0]
    /\ idtr = [base |-> "boot", limit |-> 0]
    /\ loadArg = NoLoad
    /\ idt_entries = [v \in Vectors |-> ZeroGate]
    /\ handlers = [v \in Vectors |-> NULL]
    /\ \E m1 \in MaskValues, m2 \in MaskValues :
          pic = [master |-> Chip(m1, 8, 0, FALSE), slave |-> Chip(m2, 112, 0, FALSE)]
    /\ picpc = 0
    /\ picArgs = [irq0_offset |-> 0, irq8_offset |-> 0]
    /\ mask1 = 0
    /\ mask2 = 0
    /\ portlog = << >>
    /\ entryImr = <<0, 0>>
    /\ calls = 0
    /\ retImr = << >>
    /\ cpu = "running"
    /\ iretIF = FALSE
    /\ lastDelivery = NoDelivery
    /\ ranTest = 0
    /\ lastSet = NoSetCall
    /\ fnIn = NoCall
    /\ fnOut = NoCall
    /\ hcalls = 0
    /\ InitScreen

InitMachine == InitMemory /\ iflag = FALSE

\* The boot sequence
Init == InitMachine /\ kpc = 1

Next ==
    \/ KConsole
    \/ KGdtSetEnter
    \/ GdtSetStore
    \/ KGdtSetLeave
    \/ KGdtInit
    \/ KGdtLoad
    \/ KReloadSegments
    \/ KPicCall
    \/ PicStep
    \/ KPicReturn
    \/ KIdtFill
    \/ KExceptionLoop
    \/ KIdtLoadCall
    \/ KLidt
    \/ KSti
    \/ KSetTestHandler
    \/ KRaise
    \/ HardwareIrq
    \/ HandlerRun

Spec == Init /\ [][Next]_vars

\* pic_remap alone, called repeatedly with arguments of the caller's choice
RemapCall ==
    /\ kpc = 0
    /\ calls < MaxRemapCalls
    /\ \E o0 \in {KmainIrq0Offset, 8}, o8 \in {KmainIrq8Offset, 112} : PicEnter(o0, o8)
    /\ UNCHANGED <<bootVars, cpuVars, iflag>>

RemapReturn ==
    /\ kpc = 0
    /\ PicLeave
    /\ UNCHANGED <<bootVars, cpuVars, iflag>>

InitPic == InitMachine /\ kpc = 0

NextPic == RemapCall \/ PicStep \/ RemapReturn

SpecPic == InitPic /\ [][NextPic]_vars

----------------------------------------------------------------------------
(* The builders and accessors called on their own *)

\* 32-bit values are sampled below 2^31, the largest the checker computes with
BaseSamples == {0, 65536, 305419896, 2147483647}
LimitSamples == {0, 65535, 1048575, 1048576, 2097151}
AccessSamples == {0, 154, 255}
FlagSamples == {0, 12, 15}
OffsetSamples == {0, 65535, 65536, 1052672, 2147483647}
SelectorSamples == {0, 8, 16, 264, 65535}
GateTypes == {5, 6, 7, 14, 15}
VectorSamples == {0, 1, 128, 255}

\* A run of a builder applies it once, to arguments of the caller's choice
NothingCalled == fnIn = NoCall
AccessorRun == fnIn.fn \in {"none", "interrupt_get_trampoline_addr"}

\* fill_common(&entry, base, limit) on a zeroed entry, as both setters call it
FillCommonCall ==
    /\ NothingCalled
    /\ \E base \in BaseSamples, limit \in LimitSamples :
          /\ fnIn' = [fn |-> "fill_common", base |-> base, limit |-> limit]
          /\ fnOut' = [fn |-> "fill_common",
                       entry |-> fill_common(ZeroGdtEntry, base, limit)]
    /\ UNCHANGED <<hcalls, screenVars, bootVars, cpuVars, iflag>>
    /\ UNCHANGED <<pic, picpc, picArgs, mask1, mask2, portlog, entryImr, calls, retImr>>

\* gdt_make_entry of src/gdt.c
GdtMakeEntryCall ==
    /\ NothingCalled
    /\ \E base \in BaseSamples, limit \in LimitSamples, access \in AccessSamples,
          privilege \in {0, 3}, flags \in FlagSamples :
          /\ fnIn' = [fn |-> "gdt_make_entry", base |-> base, limit |-> limit]
          /\ fnOut' = [fn |-> "gdt_make_entry",
                       entry |-> gdt_make_entry(base, limit, access, privilege, flags)]
    /\ UNCHANGED <<hcalls, screenVars, bootVars, cpuVars, iflag>>
    /\ UNCHANGED <<pic, picpc, picArgs, mask1, mask2, portlog, entryImr, calls, retImr>>

\* gdt_make_entry of src/gdt.h
GdtMakeEntryInlineCall ==
    /\ NothingCalled
    /\ \E base \in BaseSamples, limit \in LimitSamples, access \in AccessSamples,
          flags \in FlagSamples :
          /\ fnIn' = [fn |-> "gdt_make_entry_inline", base |-> base, limit |-> limit]
          /\ fnOut' = [fn |-> "gdt_make_entry_inline",
                       entry |-> gdt_make_entry_inline(base, limit, access, flags)]
    /\ UNCHANGED <<hcalls, screenVars, bootVars, cpuVars, iflag>>
    /\ UNCHANGED <<pic, picpc, picArgs, mask1, mask2, portlog, entryImr, calls, retImr>>

\* idt_make_entry of src/x86/idt.c
IdtMakeEntryCall ==
    /\ NothingCalled
    /\ \E offset \in OffsetSamples, selector \in SelectorSamples, type \in GateTypes,
          priv \in 0 .. 3, present \in {0, 1} :
          /\ fnIn' = [fn |-> "idt_make_entry", offset |-> offset, selector |-> selector,
                      type |-> type, priv |-> priv, present |-> present]
          /\ fnOut' = [fn |-> "idt_make_entry",
                       entry |-> idt_make_entry(offset, selector, type, priv, present)]
    /\ UNCHANGED <<hcalls, screenVars, bootVars, cpuVars, iflag>>
    /\ UNCHANGED <<pic, picpc, picArgs, mask1, mask2, portlog, entryImr, calls, retImr>>

\* pic_eoi(irq)
PicEoiCall ==
    /\ NothingCalled
    /\ \E irq \in 0 .. MaxEoiIrq :
          /\ fnIn' = [fn |-> "pic_eoi", irq |-> irq]
          /\ fnOut' = [fn |-> "pic_eoi", ops |-> pic_eoi(irq)]
    /\ UNCHANGED <<hcalls, screenVars, bootVars, cpuVars, iflag>>
    /\ UNCHANGED <<pic, picpc, picArgs, mask1, mask2, portlog, entryImr, calls, retImr>>

\* interrupt_set_handler(v, h) from any caller
SetHandlerCall ==
    /\ AccessorRun
    /\ \E v \in {1, TestVector}, h \in {NULL, "panic", "test_handler"} :
          /\ handlers' = interrupt_set_handler(handlers, v, h)
          /\ lastSet' = SetCall(v, h)
    /\ UNCHANGED <<kpc, i, gdt, gpc, gArgs, savedFlags, gdtr, idtr, loadArg, idt_entries>>
    /\ UNCHANGED <<cpu, iretIF, lastDelivery, ranTest, iflag>>
    /\ UNCHANGED picVars

\* interrupt_get_trampoline_addr(v): the result joins the results of the
\* earlier calls of the run, with the handler registered for vector 0x80 at
\* the time of the call
TrampolineCall ==
    /\ AccessorRun
    /\ hcalls < MaxTrampolineCalls
    /\ hcalls' = hcalls + 1
    /\ \E v \in VectorSamples :
          /\ fnIn' = [fn |-> "interrupt_get_trampoline_addr", v |-> v]
          /\ fnOut' = [fn |-> "interrupt_get_trampoline_addr",
                       log |-> Append(IF fnOut.fn = "interrupt_get_trampoline_addr"
                                      THEN fnOut.log ELSE << >>,
                                      [v |-> v, addr |-> interrupt_get_trampoline_addr(v),
                                       registered |-> handlers[TestVector]])]
    /\ UNCHANGED <<screenVars, bootVars, cpuVars, iflag>>
    /\ UNCHANGED <<pic, picpc, picArgs, mask1, mask2, portlog, entryImr, calls, retImr>>

\* Both controllers fully masked: no hardware line takes part
QuietPic == pic.master.imr = 255 /\ pic.slave.imr = 255

InitFn == InitMachine /\ kpc = 0 /\ QuietPic

NextFn ==
    \/ FillCommonCall
    \/ GdtMakeEntryCall
    \/ GdtMakeEntryInlineCall
    \/ IdtMakeEntryCall
    \/ PicEoiCall
    \/ SetHandlerCall
    \/ TrampolineCall

SpecFn == InitFn /\ [][NextFn]_vars

\* The segment setters called by any caller, with interrupts enabled or not
SegmentSamples == {0, 7, 8, 16, 65535}

GdtCallSamples ==
    { [kind |-> kind, segment |-> segment, base |-> base, limit |-> FlatLimit,
       settings |-> [conforming |-> 0, readable |-> 1, writable |-> 1,
                     direction |-> 0, common |-> CommonSettings(1, 1, 0, 0)]] :
      kind \in {"code", "data"}, segment \in SegmentSamples, base \in {0, 305419896} }

GdtCall ==
    /\ kpc = 0
    /\ hcalls < MaxGdtCalls
    /\ hcalls' = hcalls + 1
    /\ \E args \in GdtCallSamples : GdtSetEnter(args)
    /\ fnIn' = [fn |-> "gdt_set", iflag |-> iflag, gdt |-> gdt]
    /\ UNCHANGED <<fnOut, screenVars, kpc, i, gdtr, idtr, loadArg, idt_entries, handlers,
                   cpuVars>>
    /\ UNCHANGED <<pic, picpc, picArgs, mask1, mask2, portlog, entryImr, calls, retImr>>

GdtReturn ==
    /\ kpc = 0
    /\ GdtSetLeave
    /\ UNCHANGED <<kpc, i, gdtr, idtr, loadArg, idt_entries, handlers, cpuVars>>
    /\ UNCHANGED picVars

InitGdt == InitMemory /\ iflag \in BOOLEAN /\ kpc = 0 /\ QuietPic

NextGdt == GdtCall \/ GdtSetStore \/ GdtReturn

SpecGdt == InitGdt /\ [][NextGdt]_vars

\* The console functions called by any caller after console_init
CharSamples == {65, 32}
LineSamples == {<< >>, Letters(65, 26, 2), Letters(65, 26, CONSOLE_WIDTH + 1)}
RowSamples == {0, 2, CONSOLE_HEIGHT - 1, CONSOLE_HEIGHT}
ColumnSamples == {0, 3, CONSOLE_WIDTH + 3}
ScrollSamples == {0, 1, 2, 13, CONSOLE_HEIGHT}

\* A console function is called with arguments `call` and leaves console c
ConsoleCall(call, c) ==
    /\ hcalls < MaxConsoleCalls
    /\ hcalls' = hcalls + 1
    /\ fnIn' = [fn |-> call.fn, args |-> call.args, row |-> console_row,
                column |-> console_column, buffer |-> console_buffer]
    /\ fnOut' = [fn |-> call.fn, top |-> c.top]
    /\ SetConsole(c)
    /\ UNCHANGED <<terminalVars, bootVars, cpuVars, iflag>>
    /\ UNCHANGED <<pic, picpc, picArgs, mask1, mask2, portlog, entryImr, calls, retImr>>

ConsolePutCharCall ==
    /\ kpc = 0
    /\ \E ch \in CharSamples :
          ConsoleCall([fn |-> "console_put_char", args |-> <<ch>>],
                      console_put_char(ConsoleNow, ch))

ConsoleNewLineCall ==
    /\ kpc = 0
    /\ ConsoleCall([fn |-> "console_new_line", args |-> << >>],
                   console_new_line(ConsoleNow))

ConsoleWriteLineCall ==
    /\ kpc = 0
    /\ \E str \in LineSamples :
          ConsoleCall([fn |-> "console_write_line", args |-> <<str>>],
                      console_write_line(ConsoleNow, str))

ConsoleAdvanceCursorCall ==
    /\ kpc = 0
    /\ \E rows \in RowSamples, columns \in ColumnSamples :
          ConsoleCall([fn |-> "console_advance_cursor", args |-> <<rows, columns>>],
                      console_advance_cursor(ConsoleNow, rows, columns))

ConsoleScrollCall ==
    /\ kpc = 0
    /\ \E lines \in ScrollSamples :
          ConsoleCall([fn |-> "console_scroll", args |-> <<lines>>],
                      console_scroll(ConsoleNow, lines))

InitConsole == InitMachine /\ kpc = 0 /\ QuietPic /\ ConsoleNow = console_init

NextConsole ==
    \/ ConsolePutCharCall
    \/ ConsoleNewLineCall
    \/ ConsoleWriteLineCall
    \/ ConsoleAdvanceCursorCall
    \/ ConsoleScrollCall

SpecConsole == InitConsole /\ [][NextConsole]_vars

\* terminal_write_line called by any caller on an initialised terminal.  The
\* strings are the printable characters in order, cycling, so that no two
\* lines of one string are alike; the string long enough to take the bottom
\* line round the circular array is written to a fresh terminal.
TerminalString(len) == Letters(33, 94, len)
LengthSamples == {0, 1, TERMINAL_WIDTH, TERMINAL_WIDTH + 1, 2 * TERMINAL_WIDTH + 1, 200}
WrapLength == (TERMINAL_HEIGHT - 24) * TERMINAL_WIDTH + 5
CallLengths == IF NothingCalled THEN LengthSamples \cup {WrapLength} ELSE LengthSamples

TerminalCall(impl, len, bottomAtCall) ==
    /\ hcalls < MaxTerminalCalls
    /\ hcalls' = hcalls + 1
    /\ fnIn' = [fn |-> "terminal_write_line", impl |-> impl, len |-> len,
                bottom |-> bottomAtCall]
    /\ fnOut' = [fn |-> "terminal_write_line"]
    /\ UNCHANGED <<consoleVars, bootVars, cpuVars, iflag>>
    /\ UNCHANGED <<pic, picpc, picArgs, mask1, mask2, portlog, entryImr, calls, retImr>>

\* core/terminal.c
CoreWriteLineCall ==
    /\ kpc = 0
    /\ \E len \in CallLengths :
          /\ TerminalCall("core", len, tb.bottom_line)
          /\ tb' = core_terminal_write_line(tb, TerminalString(len))
    /\ UNCHANGED <<bottom, buffer>>

\* io/terminal.c
IoWriteLineCall ==
    /\ kpc = 0
    /\ \E len \in CallLengths :
          /\ TerminalCall("io", len, bottom)
          /\ LET t == io_terminal_write_line([bottom |-> bottom, buffer |-> buffer],
                                             TerminalString(len))
             IN  bottom' = t.bottom /\ buffer' = t.buffer
    /\ UNCHANGED tb

InitTerminal == InitMachine /\ kpc = 0 /\ QuietPic

NextTerminal == CoreWriteLineCall \/ IoWriteLineCall

SpecTerminal == InitTerminal /\ [][NextTerminal]_vars

----------------------------------------------------------------------------
(* Properties *)

\* The operations of the current pic_remap call on the four controller ports
ControllerPorts ==
    {PIC_MASTER_COMMAND_PORT, PIC_MASTER_DATA_PORT,
     PIC_SLAVE_COMMAND_PORT, PIC_SLAVE_DATA_PORT}
ControllerLog == SelectSeq(portlog, LAMBDA e : e.port \in ControllerPorts)

\* pic_remap has performed its last port operation
RemapFinished == picpc = PicLen + 1 \/ (picpc = 0 /\ calls > 0)

\* The order the protocol prescribes: save both masks, initialization command
\* to each command port, vector offset, cascade wiring and operating mode to
\* each data port, masks restored last
ProtocolOrder ==
    << <<"in", 33>>, <<"in", 161>>,
       <<"out", 32>>, <<"out", 160>>,
       <<"out", 33>>, <<"out", 161>>,
       <<"out", 33>>, <<"out", 161>>,
       <<"out", 33>>, <<"out", 161>>,
       <<"out", 33>>, <<"out", 161>> >>

\* C1: in every execution of pic_remap the controller-port operations done so
\* far are an initial part of the prescribed order (masks read from 0x21 and
\* 0xA1 first; then an initialization command to 0x20 and to 0xA0; then
\* irq0_offset to 0x21 and irq8_offset to 0xA1; then cascade and mode bytes
\* to 0x21 and 0xA1; then the two saved masks), and when it finishes all
\* twelve have been done.
C1_RemapOrder ==
    LET L == ControllerLog
    IN  /\ Len(L) <= Len(ProtocolOrder)
        /\ \A k \in 1 .. Len(L) :
              /\ L[k].op = ProtocolOrder[k][1]
              /\ L[k].port = ProtocolOrder[k][2]
        /\ \A k \in {3, 4} : Len(L) >= k => Bit(L[k].val, 4) = 1
        /\ Len(L) >= 5 => L[5].val = picArgs.irq0_offset
        /\ Len(L) >= 6 => L[6].val = picArgs.irq8_offset
        /\ Len(L) >= 11 => L[11].val = L[1].val
        /\ Len(L) >= 12 => L[12].val = L[2].val
        /\ RemapFinished => Len(L) = Len(ProtocolOrder)

C1_Witness ==
    /\ picpc = PicLen + 1
    /\ Len(ControllerLog) = 12
    /\ ControllerLog[11].val = 253
    /\ ControllerLog[12].val = 1

\* C2: when pic_remap returns, the master and slave mask registers hold the
\* values they held when it was called, and the masks after every later call
\* are those after the first call.
C2_MasksPreserved ==
    /\ RemapFinished => <<pic.master.imr, pic.slave.imr>> = entryImr
    /\ \A k \in 1 .. Len(retImr) : retImr[k] = retImr[1]

C2_Witness ==
    /\ calls = 2
    /\ picpc = 0
    /\ entryImr = <<254, 2>>
    /\ <<pic.master.imr, pic.slave.imr>> = <<254, 2>>
    /\ pic.master.base = KmainIrq0Offset

\* C3: once kmain has raised software interrupt 0x80, the handler that runs
\* is test_handler, it runs exactly once, and control comes back to kmain:
\* no fault, no halt.
C3_RaiseRunsTestHandler ==
    lastDelivery.vector = TestVector =>
        /\ lastDelivery.invoked = "test_handler"
        /\ cpu \in {"handler", "running"}
        /\ cpu = "running" => ranTest = 1 /\ KmainReturned

C5_DispatchRunsRegistered ==
    /\ lastSet.vector # -1 => interrupt_get_handler(lastSet.vector) = lastSet.handler
    /\ (lastDelivery.vector # -1 /\ lastDelivery.registered # NULL) =>
          lastDelivery.invoked = lastDelivery.registered

\* The interrupt table is being, or has been, made active
IdtActivating == loadArg.table = "idt_entries" \/ idtr.base = "idt_entries"

\* C6: when idt_load makes the interrupt table active, each of the 256
\* entries already is a present gate with selector 0x08 whose offset is the
\* address of that vector's trampoline.
C6_AllGatesBeforeLoad ==
    IdtActivating =>
        \A v \in Vectors :
            /\ idt_entries[v].present = 1
            /\ idt_entries[v].selector = 8
            /\ idt_entries[v].offset_16_31 * 65536 + idt_entries[v].offset_0_15
                  = interrupt_get_trampoline_addr(v)

C6_Witness ==
    /\ idtr.base = "idt_entries"
    /\ idt_entries[255].present = 1
    /\ iflag

\* C7: the limit given to the CPU is the table's size in bytes minus one:
\* 8*8192-1 for the segment table and 8*256-1 for the interrupt table, so the
\* gate of every vector 0-255 lies inside the active interrupt table.
C7_LimitsAreSizeMinusOne ==
    /\ gdtr.base = "gdt" => gdtr.limit = 8 * 8192 - 1
    /\ idtr.base = "idt_entries" =>
          /\ idtr.limit = 8 * 256 - 1
          /\ \A v \in Vectors : 8 * v + 7 <= idtr.limit

\* C8: from the first port operation of pic_remap through its last,
\* interrupts are disabled.
C8_RemapWithInterruptsOff == InPicRemap => ~iflag

C8_Witness ==
    /\ At("pic_remap")
    /\ Len(ControllerLog) = 6
    /\ pic.master.init = 3
    /\ ~iflag

\* C9: while a table pointer is being installed interrupts are disabled, and
\* interrupts are enabled only once both tables are installed.
C9_TableLoadsWithInterruptsOff ==
    /\ loadArg # NoLoad => ~iflag
    /\ (At("gdt_load") \/ At("lidt")) => ~iflag
    /\ iflag => gdtr.base = "gdt" /\ idtr.base = "idt_entries"

C9_Witness ==
    /\ At("lidt")
    /\ loadArg.table = "idt_entries"
    /\ gdtr.base = "gdt"
    /\ ~iflag

\* C10: every interrupt_set_handler call of kmain, the registration of vector
\* 0x80 included, executes while interrupts are disabled.
C10_RegistrationsWithInterruptsOff ==
    lastSet.vector # -1 => ~lastSet.iflag

\* C11: in pic_remap every write to a controller port, the two mask-restoring
\* writes included, is followed by a port_wait before the next controller
\* write and before pic_remap returns.
C11_EveryWriteThenWait ==
    \A k \in 1 .. Len(portlog) :
        (portlog[k].op = "out" /\ portlog[k].port \in ControllerPorts) =>
            /\ k < Len(portlog) =>
                  portlog[k + 1].op = "out" /\ portlog[k + 1].port = WAIT_PORT
            /\ k = Len(portlog) => ~RemapFinished

\* C12: after pic_remap(32, 40) the master's vector base is 32 and the
\* slave's is 40: line n of 0-7 is delivered on vector 32+n, line n of 8-15
\* on vector 40+(n-8), and no hardware line is delivered on a vector in 0-31.
C12_LinesRemapped ==
    /\ (calls >= 1 /\ picpc = 0) =>
          /\ pic.master.base = 32
          /\ pic.slave.base = 40
          /\ \A n \in 0 .. 7 : LineVector(n) = 32 + n
          /\ \A n \in 8 .. 15 : LineVector(n) = 40 + (n - 8)
          /\ \A n \in 0 .. 15 : LineVector(n) \notin 0 .. 31
    /\ lastDelivery.vector \notin 0 .. 31

C12_Witness ==
    /\ calls = 1
    /\ lastDelivery.vector = 33
    /\ pic.master.base = 32

\* panic has been called by an entry stub
PanicStarted == lastDelivery.invoked = "panic"

\* C13: once panic has started, control never returns to the interrupted
\* code: interrupts stay disabled, kmain makes no further step, and no
\* handler runs again.
C13_PanicNeverReturns ==
    /\ [](PanicStarted => (cpu \in {"handler", "halted"} /\ ~iflag))
    /\ [][PanicStarted =>
            /\ lastDelivery' = lastDelivery
            /\ ranTest' = ranTest
            /\ kpc' = kpc
            /\ handlers' = handlers]_vars

C13_Witness ==
    /\ PanicStarted
    /\ lastDelivery.vector = TestVector
    /\ cpu = "halted"
    /\ kpc = Len(KmainOrder)

\* A descriptor builder has been applied to (fnIn.base, fnIn.limit)
DescriptorBuilt == fnOut.fn \in {"fill_common", "gdt_make_entry", "gdt_make_entry_inline"}

\* C14: for every base and every limit, the descriptor a builder (fill_common
\* or either gdt_make_entry) returns holds bits 0-15, 16-23 and 24-31 of base
\* in base_0_15, base_16_23 and base_24_31, and bits 0-15 and 16-19 of limit
\* in limit_0_15 and limit_16_19; bits of limit above bit 19 are dropped.
C14_BuilderRoundTrip ==
    DescriptorBuilt =>
        /\ fnOut.entry.base_0_15 = fnIn.base % 65536
        /\ fnOut.entry.base_16_23 = (fnIn.base \div 65536) % 256
        /\ fnOut.entry.base_24_31 = (fnIn.base \div 16777216) % 256
        /\ fnOut.entry.limit_0_15 = fnIn.limit % 65536
        /\ fnOut.entry.limit_16_19 = (fnIn.limit \div 65536) % 16

\* C15: for every offset, 16-bit selector, gate type, privilege and present
\* flag, the gate idt_make_entry returns holds the low and the high 16 bits
\* of the offset, the selector, the type, the privilege and the present flag
\* as given, and a zero reserved byte and storage-segment bit.
C15_GateFields ==
    fnOut.fn = "idt_make_entry" =>
        /\ fnOut.entry.offset_0_15 = fnIn.offset % 65536
        /\ fnOut.entry.offset_16_31 = (fnIn.offset \div 65536) % 65536
        /\ fnOut.entry.selector = fnIn.selector
        /\ fnOut.entry.type = fnIn.type
        /\ fnOut.entry.priv_level = fnIn.priv
        /\ fnOut.entry.present = fnIn.present
        /\ fnOut.entry.zero = 0
        /\ fnOut.entry.storage_segment = 0

\* setup_flat_gdt has installed the table
FlatGdtLoaded == gdtr.base = "gdt"

\* The 32-bit base and the 20-bit limit a descriptor encodes
DescriptorBase(e) == e.base_0_15 + 65536 * e.base_16_23 + 16777216 * e.base_24_31
DescriptorLimit(e) == e.limit_0_15 + 65536 * e.limit_16_19

\* C16: after setup_flat_gdt, descriptor 1 (selector 0x08) has base 0, limit
\* 0xFFFFF, the granularity bit set, and is present, executable, readable and
\* ring 0; descriptor 2 (selector 0x10) has the same base, limit and
\* granularity and is present, writable and not executable.
C16_FlatDescriptors ==
    FlatGdtLoaded =>
        /\ DescriptorBase(GdtAt(1)) = 0
        /\ DescriptorLimit(GdtAt(1)) = 1048575
        /\ Bit(GdtAt(1).flags, 3) = 1
        /\ Bit(GdtAt(1).access, 7) = 1
        /\ Bit(GdtAt(1).access, 3) = 1
        /\ Bit(GdtAt(1).access, 1) = 1
        /\ (GdtAt(1).access \div 32) % 4 = 0
        /\ DescriptorBase(GdtAt(2)) = 0
        /\ DescriptorLimit(GdtAt(2)) = 1048575
        /\ Bit(GdtAt(2).flags, 3) = 1
        /\ Bit(GdtAt(2).access, 7) = 1
        /\ Bit(GdtAt(2).access, 1) = 1
        /\ Bit(GdtAt(2).access, 3) = 0

C16_Witness ==
    /\ FlatGdtLoaded
    /\ At("pic_remap")
    /\ GdtAt(1).limit_16_19 = 15
    /\ GdtAt(2).access = 146

\* C17: after any sequence of gdt_set_code_segment and gdt_set_data_segment
\* calls, with any segment selector, entry 0 of the table is the all-zero
\* null descriptor.
C17_NullDescriptorKept == GdtAt(0) = ZeroGdtEntry

\* The ports a pic_eoi call sent the end-of-interrupt command (0x20) to, and
\* everything else it did
EoiPorts == { fnOut.ops[k].port : k \in { j \in DOMAIN fnOut.ops :
                  fnOut.ops[j].op = "out" /\ fnOut.ops[j].val = 32 } }
EoiOther == { k \in DOMAIN fnOut.ops : fnOut.ops[k] \notin
                  {Out(PIC_MASTER_COMMAND_PORT, 32), Out(PIC_SLAVE_COMMAND_PORT, 32)} }

\* C18: pic_eoi(irq) sends the acknowledgment to the master controller only
\* when irq is in 0-7, and to both the slave and the master controller when
\* irq is greater than 7.
C18_EoiTargets ==
    fnOut.fn = "pic_eoi" =>
        /\ EoiOther = {}
        /\ fnIn.irq <= 7 => EoiPorts = {PIC_MASTER_COMMAND_PORT}
        /\ fnIn.irq > 7 => EoiPorts = {PIC_MASTER_COMMAND_PORT, PIC_SLAVE_COMMAND_PORT}

C18_Witness ==
    /\ fnOut.fn = "pic_eoi"
    /\ fnIn.irq = 8
    /\ Len(fnOut.ops) = 2

\* The calls of interrupt_get_trampoline_addr made so far
TrampolineLog == IF fnOut.fn = "interrupt_get_trampoline_addr" THEN fnOut.log ELSE << >>

SetterCalled == fnIn.fn = "gdt_set"
GdtAtCall(k) == IF k \in DOMAIN fnIn.gdt THEN fnIn.gdt[k] ELSE ZeroGdtEntry

\* C20: gdt_set_code_segment and gdt_set_data_segment store into the table
\* only while interrupts are disabled, return with the interrupt-enable flag
\* as it was at the call, and change no slot other than slot segment/8.
C20_SetterFrame ==
    /\ [](gpc \in {1, 2} => ~iflag)
    /\ [][gdt' # gdt => (~iflag /\ ~iflag')]_vars
    /\ []((SetterCalled /\ gpc = 0) => iflag = fnIn.iflag)
    /\ [](SetterCalled =>
            \A k \in (DOMAIN gdt \cup DOMAIN fnIn.gdt) \ {gArgs.segment \div 8} :
                GdtAt(k) = GdtAtCall(k))

C20_Witness ==
    /\ SetterCalled
    /\ gpc = 0
    /\ fnIn.iflag
    /\ iflag
    /\ hcalls = 2
    /\ GdtAt(gArgs.segment \div 8) # GdtAtCall(gArgs.segment \div 8)

\* A console function has been called
ConsoleCalled ==
    fnOut.fn \in {"console_put_char", "console_new_line", "console_write_line",
                  "console_advance_cursor", "console_scroll"}

\* C21: after console_init and any sequence of console_put_char,
\* console_new_line, console_write_line, console_advance_cursor and
\* console_scroll calls, console_row is below 25 and console_column is below
\* 80, and every cell console_put_char stored to is inside the 80x25 screen
\* buffer.
C21_CursorOnScreen ==
    /\ console_row < CONSOLE_HEIGHT
    /\ console_column < CONSOLE_WIDTH
    /\ ConsoleCalled => fnOut.top < CONSOLE_WIDTH * CONSOLE_HEIGHT

\* console_buffer[k] when the call was made, and now
CellAtCall(k) == CellIn(fnIn.buffer, k)
CellNow(k) == CellIn(console_buffer, k)

\* C23: console_scroll(n) with 0 < n < 25 moves the content of every screen
\* row r >= n to row r-n, blanks the last n rows and lowers console_row by n,
\* not below 0; with n >= 25 it blanks the whole screen and sets console_row
\* to 0.
C23_ScrollMovesRowsUp ==
    fnIn.fn = "console_scroll" =>
        LET n == fnIn.args[1]
        IN  /\ (0 < n /\ n < CONSOLE_HEIGHT) =>
                  /\ \A r \in n .. CONSOLE_HEIGHT - 1 : \A col \in 0 .. CONSOLE_WIDTH - 1 :
                        CellNow((r - n) * CONSOLE_WIDTH + col) = CellAtCall(r * CONSOLE_WIDTH + col)
                  /\ \A r \in CONSOLE_HEIGHT - n .. CONSOLE_HEIGHT - 1 :
                        \A col \in 0 .. CONSOLE_WIDTH - 1 :
                            CellNow(r * CONSOLE_WIDTH + col) = BlankCell
                  /\ console_row = IF fnIn.row >= n THEN fnIn.row - n ELSE 0
            /\ n >= CONSOLE_HEIGHT =>
                  /\ \A k \in ScreenCells : CellNow(k) = BlankCell
                  /\ console_row = 0

\* The terminal the last terminal_write_line call wrote to: its bottom line
\* and the character in column col of its line l
WrittenBottom == IF fnIn.impl = "core" THEN tb.bottom_line ELSE bottom
WrittenChar(l, col) ==
    IF fnIn.impl = "core"
    THEN TerminalLine(tb.buf, l, 32)[col + 1]
    ELSE TerminalLine(buffer, l, 0)[col + 1] % 256

\* C22: terminal_write_line given a string of length L writes ceil(L/80)
\* successive lines of the circular buffer, the k-th holding characters 80k
\* to 80k+79 of the string (the last one the remainder), and advances the
\* bottom line by that many lines modulo TERMINAL_HEIGHT, so the bottom line
\* index stays below TERMINAL_HEIGHT.
C22_WriteLineWraps ==
    /\ tb.bottom_line < TERMINAL_HEIGHT
    /\ bottom < TERMINAL_HEIGHT
    /\ fnIn.fn = "terminal_write_line" =>
          LET num_lines == (fnIn.len + 79) \div 80
          IN  /\ WrittenBottom = (fnIn.bottom + num_lines) % TERMINAL_HEIGHT
              /\ \A k \in 0 .. num_lines - 1 : \A col \in 0 .. 79 :
                    80 * k + col < fnIn.len =>
                        WrittenChar((fnIn.bottom + k) % TERMINAL_HEIGHT, col)
                            = TerminalString(fnIn.len)[80 * k + col + 1]

====
